---- MODULE Spec2Model ----
(***************************************************************************)
(* DivyaDrishti web interface: the detection engine (DetectionEngine), the *)
(* application controller (DivyaDrishtiApp) and the frame loop of the      *)
(* video handler (VideoHandler), as state machines.                        *)
(*                                                                         *)
(* JavaScript runs every handler to completion, so each action below is    *)
(* one whole handler: a method called from outside, a requestAnimationFrame*)
(* callback or a setTimeout callback.                                      *)
(*                                                                         *)
(* Numbers: a confidence is kept in thousandths (0.75 is 750), Math.random *)
(* is a draw k/RandDen with k in 0..RandDen-1.                             *)
(***************************************************************************)
EXTENDS Integers, Sequences, FiniteSets, TLC

\* ---------------------------------------------------------------- bounds
MaxPerFrame == 2      \* detections generated in one frame
MaxObjects == 2       \* detection objects created between two destroy()
MaxTrackingId == 2    \* largest tracking id handed out
MaxLoops == 2         \* scheduled requestAnimationFrame callbacks
MaxTimers == 2        \* pending model-load timeouts
MaxTime == 1          \* clock ticks
RandDen == 10         \* Math.random() is k/RandDen

\* ------------------------------------------------------------- constants
HistoryLimit == 100

\* ------------------------------------------------------------------ time
\* milliseconds of performance.now() the engine's own code of one frame takes
FrameCost == 1
\* milliseconds the listeners of the events of one frame take; dispatchEvent
\* calls them before it returns
ListenerTimes == {0, 1}

\* ---------------------------------------------------------------- values
NULL == <<>>
Some(n) == <<n>>

\* n/d as a fixed-point number (thousandths)
Dec(n, d) == (n * 1000) \div d

KnownModels == {"yolov11n", "yolov11s", "yolov11m", "foottrail"}
\* model identifiers a caller passes to setModel; "yolov99" is not a known model
ModelIds == {"foottrail", "yolov99"}
\* the values of the model selector of the page
SelectOptions == KnownModels
\* percentages a caller may pass to setConfidence
Percentages == {0, 75, 150}

\* draws of Math.random() the model enumerates (numerators over RandDen)
CountDraws == {0, RandDen - 1}
NumDraws == {0, RandDen \div 2}
BoxDrawA == [w |-> 0, h |-> 0, x |-> 0, y |-> 0]
BoxDrawB == [w |-> RandDen \div 2, h |-> RandDen \div 2,
             x |-> RandDen \div 2, y |-> RandDen \div 2]
\* the draws of one generateDetection call: class, confidence, bounding box
Draw == {[cls |-> 0, conf |-> 0, box |-> BoxDrawA],
         [cls |-> RandDen - 1, conf |-> RandDen \div 2, box |-> BoxDrawB]}

VARIABLES
    \* DetectionEngine fields
    isActive, trackingEnabled, currentModel, confidence, detectedObjects,
    trackingId, detectionHistory, performanceMetrics,
    \* browser scheduling
    rafQueue,        \* scheduled startDetectionLoop callbacks
    loadTimers,      \* pending setModel timeouts (the modelName each closes over)
    now,             \* the clock read by Date.now()
    \* what the engine sent out
    lastFrame,       \* the most recent processFrame: model, threshold, detections, log, alerts
    published,       \* detail objects of the newDetection events, as delivered
    assignedIds,     \* identifiers getTrackingId has returned so far
    nextRef,         \* identity of the next detection object
    selectedModel,   \* the argument of the latest setModel call
    modelSelect,     \* the model selector: disabled flag and spinner count
    \* DivyaDrishtiApp fields and the elements it writes
    isScanning, isTracking, appModel, appConfidence, ui,
    lastKeydown,     \* the latest keydown event of the document; parity flips per event
    \* VideoHandler: its flag, its scheduled processFrame callbacks, the
    \* detection overlay, the alerts container and the displayed alert count
    isProcessing, vhRafQueue, detectionOverlay, alertsContainer, alertCount,
    vhFrameParity,   \* flips with every frame the video handler processes
    \* VideoHandler.init: the await it is at, this.stream, the rawFeed element
    \* and the .video-overlay elements
    videoInit, stream, rawVideo, videoOverlay,
    aiCanvas,        \* the width and height of the AI canvas
    canvasListener   \* whether setupCanvas has added its loadedmetadata listener

engineVars == <<isActive, trackingEnabled, currentModel, confidence, detectedObjects,
                trackingId, detectionHistory, performanceMetrics, rafQueue, loadTimers,
                lastFrame, published, assignedIds, nextRef, selectedModel, modelSelect>>
appState == <<isScanning, isTracking, appModel, appConfidence, ui>>
appVars == <<appState, lastKeydown>>
cameraVars == <<videoInit, stream, rawVideo, videoOverlay, aiCanvas, canvasListener>>
videoVars == <<isProcessing, vhRafQueue, detectionOverlay, alertsContainer, alertCount,
               vhFrameParity, cameraVars>>
vars == <<engineVars, appVars, videoVars, now>>

\* ------------------------------------------------------- DetectionEngine
configs ==
    [yolov11n  |-> [classes |-> <<"person", "vehicle">>,
                    accuracy |-> Dec(94, 100), speed |-> "fast", maxDetections |-> 3],
     yolov11s  |-> [classes |-> <<"person", "vehicle", "animal">>,
                    accuracy |-> Dec(96, 100), speed |-> "medium", maxDetections |-> 4],
     yolov11m  |-> [classes |-> <<"person", "vehicle", "animal", "object">>,
                    accuracy |-> Dec(98, 100), speed |-> "slow", maxDetections |-> 5],
     foottrail |-> [classes |-> <<"person", "unauthorized-trail", "vegetation", "structure">>,
                    accuracy |-> Dec(92, 100), speed |-> "medium", maxDetections |-> 2]]

getModelConfig(modelName) ==
    IF modelName \in DOMAIN configs THEN configs[modelName] ELSE configs["yolov11n"]

\* Math.floor(Math.random() * n) for the draw k/RandDen
RandomIndex(k, n) == (k * n) \div RandDen

generateBoundingBox(b) ==
    LET width == (b.w * 200) \div RandDen + 80
        height == (b.h * 300) \div RandDen + 120
    IN [x |-> (b.x * (1280 - width)) \div RandDen,
        y |-> (b.y * (720 - height)) \div RandDen,
        width |-> width, height |-> height]

\* getTrackingId: the identifier returned when the counter is at tid
getTrackingId(enabled, tid) == IF enabled THEN Some(tid) ELSE NULL

\* generateDetection if it drew the class from the largest vocabulary instead
\* of the one of its config
generateDetectionAnyClass(config, d, enabled, tid, conf, time, ref) ==
    [class |-> configs["yolov11m"].classes[
                   RandomIndex(d.cls, Len(configs["yolov11m"].classes)) + 1],
     confidence |-> (d.conf * (Dec(1, 1) - conf)) \div RandDen + conf,
     bbox |-> generateBoundingBox(d.box),
     timestamp |-> time,
     id |-> IF enabled THEN getTrackingId(enabled, tid) ELSE NULL,
     ref |-> ref]

\* generateDetection with the counter at tid; ref is the identity of the new object
generateDetection(config, d, enabled, tid, conf, time, ref) ==
    [class |-> config.classes[RandomIndex(d.cls, Len(config.classes)) + 1],
     confidence |-> (d.conf * (Dec(1, 1) - conf)) \div RandDen + conf,
     bbox |-> generateBoundingBox(d.box),
     timestamp |-> time,
     id |-> IF enabled THEN getTrackingId(enabled, tid) ELSE NULL,
     ref |-> ref]

\* numDetections of simulateDetections for the two draws c and n
numDetections(c, n, config) ==
    IF c * 10 > 8 * RandDen THEN RandomIndex(n, config.maxDetections) + 1 ELSE 0

\* simulateDetections if getTrackingId did not advance the counter
simulateDetectionsOneId(config, draws, enabled, tid, conf, time, ref) ==
    [i \in 1..Len(draws) |->
        generateDetection(config, draws[i], enabled, tid, conf, time, ref + (i - 1))]

\* simulateDetections: one detection per draw, the counter advancing per call
simulateDetections(config, draws, enabled, tid, conf, time, ref) ==
    [i \in 1..Len(draws) |->
        generateDetection(config, draws[i], enabled, tid + (i - 1), conf, time,
                          ref + (i - 1))]

Truthy(id) == id # NULL /\ id[1] # 0

\* new Date().toISOString(), toLocaleTimeString() and toFixed(1) of a clock value
toISOString(time) == <<"iso", time>>
toLocaleTimeString(time) == <<"local", time>>
toFixed1(x) == <<"fixed1", x \div 10, x % 10>>

\* storeDetection on st = [objects, history, ...]
storeDetection(st, detection, time) ==
    LET key == <<detection.class, IF Truthy(detection.id) THEN detection.id[1] ELSE time>>
        pushed == Append(st.history, [detection EXCEPT !.timestamp = toISOString(time)])
    IN [st EXCEPT
          !.objects = [k \in DOMAIN st.objects \cup {key} |->
                          IF k = key THEN detection ELSE st.objects[k]],
          !.history = IF Len(pushed) > HistoryLimit THEN Tail(pushed) ELSE pushed]

\* updateDetectionDisplay: window.videoHandler exists, the event carries the object itself
updateDetectionDisplay(st, detection) ==
    [st EXCEPT !.published = Append(st.published, detection)]

logDetectionEvent(st, detection, time, model) ==
    [st EXCEPT !.log = Append(st.log,
        [timestamp |-> toLocaleTimeString(time), class |-> detection.class,
         confidence |-> toFixed1(detection.confidence), id |-> detection.id,
         model |-> model])]

getAlertSeverity(detection) ==
    CASE detection.class = "person" -> "high"
      [] detection.class = "unauthorized-trail" -> "critical"
      [] detection.class = "vehicle" -> "medium"
      [] detection.class = "animal" -> "low"
      [] OTHER -> "medium"

alertCondition(detection) ==
    CASE detection.class = "person" -> detection.confidence > Dec(8, 10)
      [] detection.class = "unauthorized-trail" -> detection.confidence > Dec(7, 10)
      [] detection.class = "vehicle" -> detection.confidence > Dec(85, 100)
      [] OTHER -> FALSE

triggerAlert(st, detection, time) ==
    [st EXCEPT !.alerts = Append(st.alerts,
        [type |-> "detection", class |-> detection.class,
         confidence |-> detection.confidence, timestamp |-> time,
         severity |-> getAlertSeverity(detection)])]

checkAlerts(st, detection, time) ==
    IF alertCondition(detection) THEN triggerAlert(st, detection, time) ELSE st

handleDetection(st, detection, time, model) ==
    checkAlerts(
        logDetectionEvent(
            updateDetectionDisplay(storeDetection(st, detection, time), detection),
            detection, time, model),
        detection, time)

\* the forEach of processFrame without its threshold test
RECURSIVE forEachDetectionUnfiltered(_, _, _, _, _, _)
forEachDetectionUnfiltered(st, detections, i, conf, time, model) ==
    IF i > Len(detections) THEN st
    ELSE forEachDetectionUnfiltered(handleDetection(st, detections[i], time, model),
                                    detections, i + 1, conf, time, model)

\* the forEach of processFrame over detections[i..], with the threshold conf
RECURSIVE forEachDetection(_, _, _, _, _, _)
forEachDetection(st, detections, i, conf, time, model) ==
    IF i > Len(detections) THEN st
    ELSE forEachDetection(
            IF detections[i].confidence >= conf
            THEN handleDetection(st, detections[i], time, model)
            ELSE st,
            detections, i + 1, conf, time, model)

Range(f) == {f[x] : x \in DOMAIN f}

\* updatePerformanceMetrics: the performanceMetrics object as its
\* performanceUpdate event carries it (fps and lastFrameTime are not represented)
updatePerformanceMetrics(metrics, objects) ==
    [metrics EXCEPT !.detectionCount = Cardinality(DOMAIN objects)]

\* processFrame for the draws of this frame: simulateDetections, the forEach and
\* updatePerformanceMetrics, whose event carries performanceUpdate (below)
processFrame(c, n, draws) ==
    LET modelConfig == getModelConfig(currentModel)
        detections == simulateDetections(modelConfig, draws, trackingEnabled, trackingId,
                                         confidence, now, nextRef)
        st == forEachDetection([objects |-> detectedObjects, history |-> detectionHistory,
                                published |-> published, log |-> <<>>, alerts |-> <<>>],
                               detections, 1, confidence, now, currentModel)
    IN /\ nextRef + Len(draws) <= MaxObjects + 1
       /\ trackingEnabled => trackingId + Len(draws) <= MaxTrackingId + 1
       /\ detectedObjects' = st.objects
       /\ detectionHistory' = st.history
       /\ published' = st.published
       /\ trackingId' = IF trackingEnabled THEN trackingId + Len(draws) ELSE trackingId
       /\ assignedIds' = assignedIds \cup
                            {detections[i].id[1] : i \in {j \in 1..Len(detections) :
                                                            detections[j].id # NULL}}
       /\ nextRef' = nextRef + Len(draws)
       /\ lastFrame' = [parity |-> 1 - lastFrame.parity, model |-> currentModel,
                        threshold |-> confidence, detections |-> detections,
                        log |-> st.log, alerts |-> st.alerts]

frameVars == <<detectedObjects, detectionHistory, published, trackingId, assignedIds,
               nextRef, lastFrame, performanceMetrics>>

\* the detail of the performanceUpdate event of the frame of this step, as it
\* is when dispatchEvent delivers it: processingTime is not assigned yet
performanceUpdate == updatePerformanceMetrics(performanceMetrics, detectedObjects')

\* endTime - startTime of startDetectionLoop, assigned after processFrame; the
\* listeners of newDetection and securityAlert run inside processFrame, and only
\* if a detection was handed on
measureFrame ==
    \E wait \in IF lastFrame'.log # <<>> THEN ListenerTimes ELSE {0} :
        performanceMetrics' = [performanceUpdate EXCEPT !.processingTime = FrameCost + wait]

\* startDetectionLoop without its isActive test
startDetectionLoopUnchecked(active, queue, c, n, draws) ==
    processFrame(c, n, draws) /\ measureFrame /\ rafQueue' = queue + 1

\* startDetectionLoop if it left out the frame while detections are stored
startDetectionLoopSkipping(active, queue, c, n, draws) ==
    IF ~active
    THEN rafQueue' = queue /\ UNCHANGED frameVars
    ELSE IF detectedObjects # <<>>
         THEN /\ rafQueue' = queue + 1
              /\ performanceMetrics' = [performanceMetrics EXCEPT !.processingTime = 0]
              /\ UNCHANGED <<detectedObjects, detectionHistory, published, trackingId,
                             assignedIds, nextRef, lastFrame>>
         ELSE processFrame(c, n, draws) /\ measureFrame /\ rafQueue' = queue + 1

\* the body of startDetectionLoop, run with isActive = active and queue callbacks
\* still scheduled; it schedules itself again after the frame
startDetectionLoop(active, queue, c, n, draws) ==
    IF ~active
    THEN rafQueue' = queue /\ UNCHANGED frameVars
    ELSE processFrame(c, n, draws) /\ measureFrame /\ rafQueue' = queue + 1

\* the second draw of numDetections is made only if the first is above 0.8
NumDrawsAfter(c) == IF c * 10 > 8 * RandDen THEN NumDraws ELSE {0}

\* the draws of one frame: those of numDetections, then one Draw per detection
FrameDraws(c, n) ==
    LET k == numDetections(c, n, getModelConfig(currentModel))
    IN IF k <= MaxPerFrame THEN [1..k -> Draw] ELSE {}

\* start()
Start ==
    /\ rafQueue < MaxLoops
    /\ isActive' = TRUE
    /\ \E c \in CountDraws : \E n \in NumDrawsAfter(c) : \E draws \in FrameDraws(c, n) :
          startDetectionLoop(TRUE, rafQueue, c, n, draws)
    /\ UNCHANGED <<trackingEnabled, currentModel, confidence, loadTimers, modelSelect,
                   selectedModel, appVars, videoVars, now>>

\* the requestAnimationFrame callback () => this.startDetectionLoop()
LoopCallback ==
    /\ rafQueue > 0
    /\ \E c \in CountDraws : \E n \in NumDrawsAfter(c) : \E draws \in FrameDraws(c, n) :
          startDetectionLoop(isActive, rafQueue - 1, c, n, draws)
    /\ UNCHANGED <<isActive, trackingEnabled, currentModel, confidence, loadTimers,
                   modelSelect, selectedModel, appVars, videoVars, now>>

\* the requestAnimationFrame callback when processFrame throws at its first
\* statement: neither startDetectionLoop nor the callback catches, so the
\* statements after processFrame() (the measurement, requestAnimationFrame) are
\* not reached
LoopCallbackThrows ==
    /\ rafQueue > 0
    /\ isActive
    /\ rafQueue' = rafQueue - 1
    /\ UNCHANGED <<frameVars, isActive, trackingEnabled, currentModel, confidence,
                   loadTimers, modelSelect, selectedModel, appVars, videoVars, now>>

\* clearAllDetections (nothing listens to its clearDetections event)
clearAllDetections ==
    /\ detectedObjects' = <<>>
    /\ trackingId' = 1

\* stop()
Stop ==
    /\ isActive' = FALSE
    /\ clearAllDetections
    /\ UNCHANGED <<trackingEnabled, currentModel, confidence, detectionHistory,
                   performanceMetrics, rafQueue, loadTimers, lastFrame, published,
                   assignedIds, nextRef, selectedModel, modelSelect, appVars, videoVars,
                   now>>

\* AnimationsController.animateModelLoading, the listener of modelLoading
animateModelLoading(sel, isLoading) ==
    IF isLoading
    THEN [disabled |-> TRUE, spinners |-> sel.spinners + 1]
    ELSE [disabled |-> FALSE,
          spinners |-> IF sel.spinners > 0 THEN sel.spinners - 1 ELSE 0]

\* setModel that would install the model only when its load timeout fires
setModelAfterLoad(modelName) ==
    /\ loadTimers < MaxTimers
    /\ currentModel' = currentModel
    /\ selectedModel' = modelName
    /\ modelSelect' = animateModelLoading(modelSelect, TRUE)
    /\ loadTimers' = loadTimers + 1
    /\ UNCHANGED <<isActive, trackingEnabled, confidence, detectedObjects, trackingId,
                   detectionHistory, performanceMetrics, rafQueue, lastFrame, published,
                   assignedIds, nextRef, appVars, videoVars, now>>

\* setModel(modelName): showModelLoading and the 2000 ms timeout
setModel(modelName) ==
    /\ loadTimers < MaxTimers
    /\ currentModel' = modelName
    /\ selectedModel' = modelName
    /\ modelSelect' = animateModelLoading(modelSelect, TRUE)
    /\ loadTimers' = loadTimers + 1
    /\ UNCHANGED <<isActive, trackingEnabled, confidence, detectedObjects, trackingId,
                   detectionHistory, performanceMetrics, rafQueue, lastFrame, published,
                   assignedIds, nextRef, appVars, videoVars, now>>

SetModel == \E modelName \in ModelIds : setModel(modelName)

\* the timeout of setModel: hideModelLoading, updateModelPerformance (no listener)
ModelLoaded ==
    /\ loadTimers > 0
    /\ loadTimers' = loadTimers - 1
    /\ modelSelect' = animateModelLoading(modelSelect, FALSE)
    /\ UNCHANGED <<isActive, trackingEnabled, currentModel, confidence, detectedObjects,
                   trackingId, detectionHistory, performanceMetrics, rafQueue, lastFrame,
                   published, assignedIds, nextRef, selectedModel, appVars, videoVars,
                   now>>

\* setConfidence(confidence): a percentage becomes a decimal
setConfidence(percent) ==
    /\ confidence' = Dec(percent, 100)
    /\ UNCHANGED <<isActive, trackingEnabled, currentModel, detectedObjects, trackingId,
                   detectionHistory, performanceMetrics, rafQueue, loadTimers, lastFrame,
                   published, assignedIds, nextRef, selectedModel, modelSelect, appVars,
                   videoVars, now>>

SetConfidence == \E percent \in Percentages : setConfidence(percent)

\* clearTrackingData if it dropped the stored detections with their identifiers
clearTrackingDataDropping ==
    /\ trackingId' = 1
    /\ detectedObjects' = <<>>

\* clearTrackingData that resets the stored identifiers to 0 instead of null
clearTrackingDataToZero ==
    /\ trackingId' = 1
    /\ detectedObjects' = [k \in DOMAIN detectedObjects |->
                              [detectedObjects[k] EXCEPT !.id = Some(0)]]

\* clearTrackingData: the stored detection objects themselves get id = null
clearTrackingData ==
    /\ trackingId' = 1
    /\ detectedObjects' = [k \in DOMAIN detectedObjects |->
                              [detectedObjects[k] EXCEPT !.id = NULL]]

\* enableTracking(enabled)
enableTracking(enabled) ==
    /\ trackingEnabled' = enabled
    /\ IF ~enabled THEN clearTrackingData ELSE UNCHANGED <<trackingId, detectedObjects>>
    /\ UNCHANGED <<isActive, currentModel, confidence, detectionHistory,
                   performanceMetrics, rafQueue, loadTimers, lastFrame, published,
                   assignedIds, nextRef, selectedModel, modelSelect, appVars, videoVars,
                   now>>

EnableTracking == \E enabled \in BOOLEAN : enableTracking(enabled)

\* destroy(): stop(), then the map and the history are emptied; no detection
\* object stays referenced by the engine, so object identities start over
Destroy ==
    /\ isActive' = FALSE
    /\ clearAllDetections
    /\ detectionHistory' = <<>>
    /\ published' = <<>>
    /\ nextRef' = 1
    /\ UNCHANGED <<trackingEnabled, currentModel, confidence, performanceMetrics,
                   rafQueue, loadTimers, lastFrame, assignedIds, selectedModel,
                   modelSelect, appVars, videoVars, now>>

\* time passes between two handlers
Tick ==
    /\ now < MaxTrackingId + 1 + MaxTime
    /\ now' = now + 1
    /\ UNCHANGED <<engineVars, appVars, videoVars>>

\* ------------------------------------------------------- DivyaDrishtiApp
\* (toasts and one-shot animations are not represented)
getModelStats(model) ==
    CASE model = "yolov11n" -> [name |-> "YOLOv11n", performance |-> "High", accuracy |-> "94.2%"]
      [] model = "yolov11s" -> [name |-> "YOLOv11s", performance |-> "High", accuracy |-> "96.1%"]
      [] model = "yolov11m" -> [name |-> "YOLOv11m", performance |-> "Medium", accuracy |-> "97.8%"]
      [] model = "foottrail" -> [name |-> "FootTrail", performance |-> "Medium", accuracy |-> "92.5%"]
      [] OTHER -> [name |-> "YOLOv11n", performance |-> "High", accuracy |-> "94.2%"]

\* startSurveillance: startVideoProcessing and startFPSCounter only write to the console
startSurveillance(u) == [u EXCEPT !.statusDot = "online", !.glow = TRUE]

\* stopSurveillance: stopVideoProcessing and stopFPSCounter only write to the console
stopSurveillance(u) == [u EXCEPT !.statusDot = "offline", !.glow = FALSE]

toggleSurveillance ==
    /\ isScanning' = ~isScanning
    /\ ui' = IF ~isScanning
             THEN startSurveillance([ui EXCEPT !.btnActive = TRUE, !.btnText = "STOP SCAN"])
             ELSE stopSurveillance([ui EXCEPT !.btnActive = FALSE, !.btnText = "START SCAN"])
    /\ UNCHANGED <<isTracking, appModel, appConfidence>>

\* toggleTracking(enabled), the change listener of the tracking checkbox
toggleTracking(enabled) ==
    /\ isTracking' = enabled
    /\ ui' = [ui EXCEPT !.trackingChecked = enabled,
                        !.toggleStatus = IF enabled THEN "ON" ELSE "OFF"]
    /\ UNCHANGED <<isScanning, appModel, appConfidence>>

\* changeModel(modelValue); showModelLoading only writes to the console
changeModel(modelValue) ==
    /\ appModel' = modelValue
    /\ ui' = [ui EXCEPT !.modelStats = getModelStats(modelValue)]
    /\ UNCHANGED <<isScanning, isTracking, appConfidence>>

updateConfidence(value) ==
    /\ appConfidence' = value
    /\ UNCHANGED <<isScanning, isTracking, appModel, ui>>

toggleRecording ==
    /\ ui' = [ui EXCEPT !.recording = ~ui.recording]
    /\ UNCHANGED <<isScanning, isTracking, appModel, appConfidence>>

resetUI(u) ==
    [u EXCEPT !.btnActive = FALSE, !.btnText = "START SCAN",
              !.trackingChecked = FALSE, !.toggleStatus = "OFF"]

emergencyStop ==
    /\ isScanning' = FALSE
    /\ isTracking' = FALSE
    /\ ui' = resetUI(ui)
    /\ UNCHANGED <<appModel, appConfidence>>

Tags == {"BODY", "INPUT", "SELECT"}
Keys == {" ", "s", "t", "f", "escape"}

\* handleKeyboardShortcuts for a keydown of key with the focus on an element of tag
handleKeyboardShortcuts(tag, key) ==
    IF tag = "INPUT" \/ tag = "SELECT" THEN UNCHANGED appState
    ELSE CASE key = " " -> toggleSurveillance
           [] key = "t" -> toggleTracking(~ui.trackingChecked)
           [] key = "escape" -> emergencyStop
           [] OTHER -> UNCHANGED appState

\* none of the application's handlers dispatches an event the engine listens to
ToggleSurveillance ==
    toggleSurveillance /\ UNCHANGED <<lastKeydown, engineVars, videoVars, now>>
ToggleTracking ==
    (\E enabled \in BOOLEAN : toggleTracking(enabled))
        /\ UNCHANGED <<lastKeydown, engineVars, videoVars, now>>
ChangeModel ==
    (\E modelValue \in SelectOptions : changeModel(modelValue))
        /\ UNCHANGED <<lastKeydown, engineVars, videoVars, now>>
UpdateConfidence ==
    (\E value \in Percentages : updateConfidence(value))
        /\ UNCHANGED <<lastKeydown, engineVars, videoVars, now>>
ToggleRecording == toggleRecording /\ UNCHANGED <<lastKeydown, engineVars, videoVars, now>>
EmergencyStop == emergencyStop /\ UNCHANGED <<lastKeydown, engineVars, videoVars, now>>
\* the keydown listener of the document
KeyDown ==
    (\E tag \in Tags, key \in Keys :
        /\ handleKeyboardShortcuts(tag, key)
        /\ lastKeydown' = [parity |-> 1 - lastKeydown.parity, tag |-> tag, key |-> key])
        /\ UNCHANGED <<engineVars, videoVars, now>>

\* ---------------------------------------------------------- VideoHandler
\* draws of one generateRandomDetection call: id and confidence
VideoDraw == {[id |-> RandDen \div 2, conf |-> RandDen \div 2]}

\* (x).toFixed(2) of a number in thousandths: rounded to hundredths
toFixed2(x) == <<"fixed2", (x + 5) \div 10>>

generateRandomDetection(d) ==
    [id |-> RandomIndex(d.id, 100), class |-> "person",
     confidence |-> toFixed2((d.conf * Dec(3, 10)) \div RandDen + Dec(7, 10))]

\* addDetectionAlert: newest first, at most 5 alerts
RECURSIVE limitAlerts(_)
limitAlerts(alerts) ==
    IF Len(alerts) > 5 THEN limitAlerts(SubSeq(alerts, 1, Len(alerts) - 1)) ELSE alerts

\* the alert element of a detection: its time, confidence in percent and id
alertItem(detection, time) ==
    [timestamp |-> toLocaleTimeString(time), confidence |-> detection.confidence[2],
     id |-> detection.id]

\* addDetectionAlert if it added the new alert after the last child
addDetectionAlertAtEnd(alerts, detection, time) ==
    limitAlerts(alerts \o <<alertItem(detection, time)>>)

addDetectionAlert(alerts, detection, time) ==
    limitAlerts(<<alertItem(detection, time)>> \o alerts)

\* the body of VideoHandler.processFrame with isProcessing = processing and queue
\* callbacks still scheduled; hit says whether Math.random() > 0.7
videoProcessFrame(processing, queue, hit, d) ==
    IF ~processing
    THEN vhRafQueue' = queue
         /\ UNCHANGED <<detectionOverlay, alertsContainer, alertCount, vhFrameParity>>
    ELSE /\ vhRafQueue' = queue + 1
         /\ vhFrameParity' = 1 - vhFrameParity
         /\ IF hit
            THEN /\ detectionOverlay' = <<generateRandomDetection(d)>>
                 /\ alertsContainer' = addDetectionAlert(alertsContainer,
                                                        generateRandomDetection(d), now)
                 /\ alertCount' = Len(alertsContainer')
            ELSE /\ detectionOverlay' = <<>>
                 /\ UNCHANGED <<alertsContainer, alertCount>>

\* startProcessing()
StartProcessing ==
    /\ vhRafQueue < MaxLoops
    /\ IF isProcessing
       THEN UNCHANGED videoVars
       ELSE /\ isProcessing' = TRUE
            /\ \E k \in CountDraws, d \in VideoDraw :
                  videoProcessFrame(TRUE, vhRafQueue, k * 10 > 7 * RandDen, d)
    /\ UNCHANGED <<cameraVars, engineVars, appVars, now>>

\* stopProcessing()
StopProcessing ==
    /\ isProcessing' = FALSE
    /\ detectionOverlay' = <<>>
    /\ UNCHANGED <<vhRafQueue, alertsContainer, alertCount, vhFrameParity, cameraVars,
                   engineVars, appVars, now>>

\* the requestAnimationFrame callback () => this.processFrame()
VideoLoopCallback ==
    /\ vhRafQueue > 0
    /\ \E k \in CountDraws, d \in VideoDraw :
          videoProcessFrame(isProcessing, vhRafQueue - 1, k * 10 > 7 * RandDen, d)
    /\ UNCHANGED <<isProcessing, cameraVars, engineVars, appVars, now>>

\* the 2 s timer of drawDetection removes its box if it is still in the overlay
DetectionBoxTimeout ==
    /\ detectionOverlay # <<>>
    /\ detectionOverlay' = Tail(detectionOverlay)
    /\ UNCHANGED <<isProcessing, vhRafQueue, alertsContainer, alertCount, vhFrameParity,
                   cameraVars, engineVars, appVars, now>>

\* loadDemoVideo on the rawFeed element
\* loadDemoVideo on the rawFeed element; a new src makes the element load
loadDemoVideo(video) ==
    [video EXCEPT !.src = "assets/demo-video.mp4", !.loop = TRUE, !.muted = TRUE,
                  !.metadata = "loading"]

\* the loadedmetadata listener of setupCanvas
sizeCanvas == [width |-> "videoWidth", height |-> "videoHeight"]

hideVideoOverlay(overlay) == [overlay EXCEPT !.display = "none"]

showVideoError(overlay, message) == [display |-> "flex", error |-> Some(message)]

\* getUserMedia resolved: setupCamera sets srcObject and awaits loadedmetadata
CameraGranted ==
    /\ videoInit = "getUserMedia"
    /\ stream' = Some("MediaStream")
    /\ rawVideo' = [rawVideo EXCEPT !.srcObject = stream', !.metadata = "loading"]
    /\ videoInit' = "loadedmetadata"
    /\ UNCHANGED <<videoOverlay, aiCanvas, canvasListener, isProcessing, vhRafQueue, detectionOverlay,
                   alertsContainer, alertCount, vhFrameParity, engineVars, appVars, now>>

\* the loadedmetadata event of the rawFeed element: the listener of setupCanvas
\* runs if it has been added; then, if setupCamera awaits the event
\* (onloadedmetadata = resolve), setupCamera returns and init goes on with
\* setupCanvas and hideVideoOverlay
LoadedMetadata ==
    /\ rawVideo.metadata = "loading"
    /\ rawVideo' = [rawVideo EXCEPT !.metadata = "loaded"]
    /\ aiCanvas' = IF canvasListener THEN sizeCanvas ELSE aiCanvas
    /\ IF videoInit = "loadedmetadata"
       THEN /\ canvasListener' = TRUE
            /\ videoOverlay' = hideVideoOverlay(videoOverlay)
            /\ videoInit' = "done"
       ELSE UNCHANGED <<canvasListener, videoOverlay, videoInit>>
    /\ UNCHANGED <<stream, isProcessing, vhRafQueue, detectionOverlay,
                   alertsContainer, alertCount, vhFrameParity, engineVars, appVars, now>>

\* the catch of setupCamera if it passed the error on to init, whose catch
\* shows the error
cameraSetupFailedRethrows ==
    /\ rawVideo' = rawVideo
    /\ canvasListener' = canvasListener
    /\ videoOverlay' = showVideoError(videoOverlay, "Camera access denied or not available")

\* the catch of setupCamera and what init does after setupCamera returned
cameraSetupFailed ==
    /\ rawVideo' = loadDemoVideo(rawVideo)
    /\ canvasListener' = TRUE
    /\ videoOverlay' = hideVideoOverlay(videoOverlay)

\* getUserMedia rejected (or navigator.mediaDevices missing); the awaits that
\* follow are microtasks, no other handler runs before init has finished
CameraDenied ==
    /\ videoInit = "getUserMedia"
    /\ cameraSetupFailed
    /\ videoInit' = "done"
    /\ UNCHANGED <<stream, aiCanvas, isProcessing, vhRafQueue, detectionOverlay,
                   alertsContainer, alertCount, vhFrameParity, engineVars, appVars, now>>

Init ==
    /\ isActive = FALSE
    /\ trackingEnabled = FALSE
    /\ currentModel = "yolov11n"
    /\ confidence = Dec(75, 100)
    /\ detectedObjects = <<>>
    /\ trackingId = 1
    /\ detectionHistory = <<>>
    /\ performanceMetrics = [processingTime |-> 0, detectionCount |-> 0]
    /\ rafQueue = 0
    /\ loadTimers = 0
    /\ now = MaxTrackingId + 1
    /\ lastFrame = [parity |-> 0, model |-> "yolov11n", threshold |-> Dec(75, 100),
                    detections |-> <<>>, log |-> <<>>, alerts |-> <<>>]
    /\ published = <<>>
    /\ assignedIds = {}
    /\ nextRef = 1
    /\ selectedModel = "yolov11n"
    /\ modelSelect = [disabled |-> FALSE, spinners |-> 0]
    /\ isScanning = FALSE
    /\ isTracking = FALSE
    /\ appModel = "yolov11n"
    /\ appConfidence = 75
    /\ ui = [btnActive |-> FALSE, btnText |-> "START SCAN", statusDot |-> "offline",
             glow |-> FALSE, trackingChecked |-> FALSE, toggleStatus |-> "OFF",
             recording |-> FALSE, modelStats |-> getModelStats("yolov11n")]
    /\ lastKeydown = [parity |-> 0, tag |-> "BODY", key |-> "s"]
    /\ isProcessing = FALSE
    /\ vhRafQueue = 0
    /\ detectionOverlay = <<>>
    /\ alertsContainer = <<>>
    /\ alertCount = 0
    /\ vhFrameParity = 0
    /\ videoInit = "getUserMedia"
    /\ stream = NULL
    /\ rawVideo = [srcObject |-> NULL, src |-> "", loop |-> FALSE, muted |-> FALSE,
                   metadata |-> "none"]
    /\ aiCanvas = [width |-> "default", height |-> "default"]
    /\ canvasListener = FALSE
    /\ videoOverlay = [display |-> "flex", error |-> NULL]

Next ==
    \/ Start
    \/ LoopCallback
    \/ LoopCallbackThrows
    \/ Stop
    \/ SetModel
    \/ ModelLoaded
    \/ SetConfidence
    \/ EnableTracking
    \/ Destroy
    \/ Tick

    \/ ToggleSurveillance
    \/ ToggleTracking
    \/ ChangeModel
    \/ UpdateConfidence
    \/ ToggleRecording
    \/ EmergencyStop
    \/ KeyDown
    \/ StartProcessing
    \/ StopProcessing
    \/ VideoLoopCallback
    \/ DetectionBoxTimeout
    \/ CameraGranted
    \/ LoadedMetadata
    \/ CameraDenied

\* every handler of the page
Spec == Init /\ [][Next]_vars

\* the engine driven by start, stop, enableTracking and its frame loop
NextTrack == LoopCallback \/ Start \/ Stop \/ EnableTracking
SpecTrack == Init /\ [][NextTrack]_vars
\* the same, with the browser running every scheduled animation-frame callback
SpecTrackFair == SpecTrack /\ WF_vars(LoopCallback)

\* the engine driven by start, stop, setModel and its frame loop
NextModel == Start \/ LoopCallback \/ Stop \/ SetModel \/ ModelLoaded
SpecModel == Init /\ [][NextModel]_vars

\* the two frame loops driven by start/stop and startProcessing/stopProcessing
NextLoop == Start \/ LoopCallback \/ Stop \/ StartProcessing \/ StopProcessing
               \/ VideoLoopCallback \/ DetectionBoxTimeout
SpecLoop == Init /\ [][NextLoop]_vars

\* the application driven by its controls and the keyboard
NextApp == ToggleSurveillance \/ ToggleTracking \/ ChangeModel \/ UpdateConfidence
              \/ ToggleRecording \/ EmergencyStop \/ KeyDown
SpecApp == Init /\ [][NextApp]_vars

\* the engine driven by start, stop, setConfidence and its frame loop
NextConf == Start \/ LoopCallback \/ Stop \/ SetConfidence
SpecConf == Init /\ [][NextConf]_vars

\* the video handler: its initialisation and its frame loop
NextVideo == CameraGranted \/ LoadedMetadata \/ CameraDenied \/ StartProcessing
                \/ StopProcessing \/ VideoLoopCallback \/ DetectionBoxTimeout
SpecVideo == Init /\ [][NextVideo]_vars

\* the video handler's frame loop while time passes
NextAlerts == StartProcessing \/ StopProcessing \/ VideoLoopCallback \/ Tick
SpecAlerts == Init /\ [][NextAlerts]_vars

\* the engine's frame loop when a frame may throw
NextFault == Start \/ LoopCallback \/ LoopCallbackThrows \/ Stop
SpecFault == Init /\ [][NextFault]_vars

\* ------------------------------------------------------------ properties
\* a step that processed a frame of the engine
FrameStep == lastFrame'.parity # lastFrame.parity

\* the identifiers the previous frame handed out are the latest ones of the
\* counter: tracking was on then, and no stop or enableTracking(false) came since
TrackedSinceLastFrame ==
    /\ trackingEnabled
    /\ lastFrame.detections # <<>>
    /\ \A i \in 1..Len(lastFrame.detections) :
          lastFrame.detections[i].id =
              Some(trackingId - Len(lastFrame.detections) + i - 1)

\* the detections of frame f at the place of detection d
AtSamePlace(f, d) ==
    {i \in 1..Len(f.detections) :
        f.detections[i].class = d.class /\ f.detections[i].bbox = d.bbox}

\* C1: a tracking identifier that was assigned once is never assigned again:
\* every identifier a step takes from the counter was not handed out before.
TrackingIdNeverReused ==
    [][\A i \in trackingId..(trackingId' - 1) : i \notin assignedIds]_vars

\* C2: with tracking enabled, an object detected at the same place in two
\* consecutive processed frames (the only detection there in both) carries the
\* same identifier in both.
SamePlaceSameIdentifier ==
    [][(FrameStep /\ TrackedSinceLastFrame) =>
          \A i \in 1..Len(lastFrame.detections), j \in 1..Len(lastFrame'.detections) :
             (/\ AtSamePlace(lastFrame, lastFrame.detections[i]) = {i}
              /\ AtSamePlace(lastFrame', lastFrame.detections[i]) = {j})
             => lastFrame'.detections[j].id = lastFrame.detections[i].id]_vars

\* C3: a frame is processed against one model, the one selected by the latest
\* setModel before the frame started: every detection of the frame has a class
\* of that model's configuration and every log entry of the frame names that
\* model, and the frame leaves the model as it is.
FrameUsesSelectedModel ==
    [][FrameStep =>
          /\ lastFrame'.model = selectedModel
          /\ currentModel' = selectedModel
          /\ \A i \in 1..Len(lastFrame'.detections) :
                lastFrame'.detections[i].class
                    \in Range(getModelConfig(selectedModel).classes)
          /\ \A i \in 1..Len(lastFrame'.log) : lastFrame'.log[i].model = selectedModel]_vars

\* C3 witness: a frame with a logged detection ran under a model that setModel
\* selected after the engine was constructed.
FrameAfterModelSwitch ==
    /\ lastFrame.model = "foottrail"
    /\ lastFrame.log # <<>>
    /\ \E i \in 1..Len(lastFrame.detections) : lastFrame.detections[i].class = "structure"

\* C4: setModel with an identifier that is not a known model leaves the
\* previously active model active.
UnknownModelKeepsPrevious ==
    [][(loadTimers' = loadTimers + 1 /\ selectedModel' \notin KnownModels)
          => currentModel' = currentModel]_vars

\* C5: once stopped and not started again, no frame is processed and no loop
\* callback is scheduled: a step between two stopped states of the engine (of
\* the video handler) processes no frame and adds no callback.
StopIsEffective ==
    [][/\ (~isActive /\ ~isActive') =>
            (/\ ~FrameStep
             /\ rafQueue' <= rafQueue
             /\ UNCHANGED <<detectionHistory, published, lastFrame, nextRef>>)
       /\ (~isProcessing /\ ~isProcessing') =>
            (/\ vhFrameParity' = vhFrameParity
             /\ vhRafQueue' <= vhRafQueue
             /\ UNCHANGED <<alertsContainer, alertCount>>)]_vars

\* C5 witness: both loops ran, were stopped, and their scheduled callbacks have
\* fired and returned without scheduling another.
LoopsEndedAfterStop ==
    /\ ~isActive /\ rafQueue = 0 /\ lastFrame.parity = 1
    /\ ~isProcessing /\ vhRafQueue = 0 /\ alertCount > 0

\* C6: at most one detection loop is scheduled at any time.
SingleDetectionLoop == rafQueue <= 1

\* C7: the engine follows the application's commands.
CommandsReachEngine ==
    /\ isActive = isScanning
    /\ currentModel = appModel
    /\ trackingEnabled = isTracking

\* the detections a step stored, published or put into the history
NewlyStored ==
    {detectedObjects'[k] : k \in {x \in DOMAIN detectedObjects' :
        x \notin DOMAIN detectedObjects \/ detectedObjects'[x].ref # detectedObjects[x].ref}}
NewInHistory ==
    {detectionHistory'[i] : i \in {x \in DOMAIN detectionHistory' :
        \A y \in DOMAIN detectionHistory : detectionHistory[y].ref # detectionHistory'[x].ref}}
NewlyPublished ==
    {published'[i] : i \in {x \in DOMAIN published' :
        \A y \in DOMAIN published : published[y].ref # published'[x].ref}}

\* C8: everything a frame hands on (stores, publishes, logs, checks for alerts)
\* has a confidence of at least the threshold in force when the frame started.
HandedOnMeetsThreshold ==
    [][/\ \A d \in NewlyStored : d.confidence >= confidence
       /\ \A d \in NewInHistory : d.confidence >= confidence
       /\ \A d \in NewlyPublished : d.confidence >= confidence
       /\ FrameStep =>
             /\ lastFrame'.threshold = confidence
             /\ \A i \in 1..Len(lastFrame'.log) :
                   lastFrame'.log[i].confidence[2] * 10 + lastFrame'.log[i].confidence[3]
                       >= confidence
             /\ \A i \in 1..Len(lastFrame'.alerts) :
                   lastFrame'.alerts[i].confidence >= confidence]_vars

\* C8 witness: a frame generated a detection below its threshold and dropped
\* it, and handed on another one.
DetectionBelowThresholdDropped ==
    /\ \E i \in 1..Len(lastFrame.detections) :
          /\ lastFrame.detections[i].confidence < lastFrame.threshold
          /\ \A j \in 1..Len(published) : published[j].ref # lastFrame.detections[i].ref
    /\ \E i \in 1..Len(lastFrame.detections), j \in 1..Len(published) :
          published[j].ref = lastFrame.detections[i].ref

\* C9: the confidence threshold is always within [0, 1].
ThresholdInUnitInterval == Dec(0, 1) <= confidence /\ confidence <= Dec(1, 1)

PublishedLatencyIsOfFrame ==
    [][FrameStep => performanceUpdate.processingTime = performanceMetrics'.processingTime]_vars

FrameTimeExcludesSubscribers ==
    [][FrameStep => performanceMetrics'.processingTime = FrameCost]_vars

\* C14: every securityAlert of a frame whose detections have track ids carries
\* the track id, the class and the confidence of a detection of that frame, and
\* a timestamp.
AlertCarriesTrackId ==
    \A i \in 1..Len(lastFrame.alerts) :
      (\A j \in 1..Len(lastFrame.detections) : lastFrame.detections[j].id # NULL) =>
        /\ {"id", "class", "confidence", "timestamp"} \subseteq DOMAIN lastFrame.alerts[i]
        /\ \E j \in 1..Len(lastFrame.detections) :
              /\ lastFrame.alerts[i].id = lastFrame.detections[j].id
              /\ lastFrame.alerts[i].class = lastFrame.detections[j].class
              /\ lastFrame.alerts[i].confidence = lastFrame.detections[j].confidence

\* C15: after emergencyStop nothing is active: not scanning, not tracking, the
\* system status offline, the scanning glow removed, no recording.
EmergencyStopStopsAll ==
    [][EmergencyStop =>
          /\ ~isScanning' /\ ~isTracking'
          /\ ui'.statusDot = "offline" /\ ~ui'.glow
          /\ ~ui'.recording]_vars

\* C16: every Escape keydown runs emergencyStop, whichever element has the focus.
EscapeRunsEmergencyStop ==
    [][(lastKeydown'.parity # lastKeydown.parity /\ lastKeydown'.key = "escape")
          => emergencyStop]_vars

\* C17: when camera access failed, init has completed with the raw feed on the
\* looping, muted demo video, the overlay hidden and no error message shown.
CameraFailureFallsBackToDemo ==
    (videoInit # "getUserMedia" /\ stream = NULL) =>
        /\ videoInit = "done"
        /\ rawVideo.src = "assets/demo-video.mp4" /\ rawVideo.loop /\ rawVideo.muted
        /\ videoOverlay.display = "none"
        /\ videoOverlay.error = NULL

\* C17 witness: camera access failed and the demo video is the source.
DemoVideoAfterCameraFailure ==
    /\ videoInit = "done" /\ stream = NULL
    /\ rawVideo.src = "assets/demo-video.mp4"
    /\ isProcessing

\* C18: with tracking enabled, every iteration of the detection loop that runs
\* while the engine is active processes a frame.
NoFrameSkipped ==
    [][(trackingEnabled /\ (Start \/ (isActive /\ LoopCallback))) => FrameStep]_vars

\* C18 witness: the engine is active with tracking enabled, detections are
\* stored and the latest iteration processed a frame with tracked detections.
TrackedFrameWhileStored ==
    /\ isActive /\ trackingEnabled
    /\ Cardinality(DOMAIN detectedObjects) >= 2
    /\ \E i \in 1..Len(lastFrame.detections) : lastFrame.detections[i].id # NULL

\* C19: a tracked object that is not detected again leaves the live set: if
\* frames keep being processed and from some point on none of them stores a
\* detection, then (after track_buffer frames) no object with a track id is
\* left in the live set.
StaleObjectRemoved ==
    ([]<><<FrameStep>>_vars /\ <>[][NewlyStored = {}]_vars)
        => <>[](\A k \in DOMAIN detectedObjects : detectedObjects[k].id = NULL)

\* C20: in every processed frame no track identifier is given to two
\* detections, and no detection is stored under two keys of the live set.
OneToOneInFrame ==
    /\ \A i, j \in 1..Len(lastFrame.detections) :
          (i # j /\ lastFrame.detections[i].id # NULL)
             => lastFrame.detections[i].id # lastFrame.detections[j].id
    /\ \A i \in 1..Len(lastFrame.detections) :
          Cardinality({k \in DOMAIN detectedObjects :
                          detectedObjects[k].ref = lastFrame.detections[i].ref}) <= 1

\* C20 witness: a frame with two detections that both have a track identifier.
TwoTrackedDetectionsInFrame ==
    /\ Len(lastFrame.detections) >= 2
    /\ \A i \in 1..Len(lastFrame.detections) : lastFrame.detections[i].id # NULL

\* C21: every detection of a frame has a class of the vocabulary of the
\* configuration getModelConfig resolves for the model of that frame, known or not.
ClassInVocabulary ==
    \A i \in 1..Len(lastFrame.detections) :
        lastFrame.detections[i].class \in Range(getModelConfig(lastFrame.model).classes)

\* C21 witness: a frame produced detections while currentModel was not a known
\* model.
DetectionsUnderUnknownModel ==
    /\ lastFrame.model \notin KnownModels
    /\ Len(lastFrame.detections) >= 2

\* C22: at most one frame-processing loop of the video handler is scheduled at
\* any time.
SingleVideoLoop == vhRafQueue <= 1

\* C23: once init has completed and the metadata of the raw feed has loaded,
\* the AI canvas has the video's width and height.
CanvasSizedAfterInit ==
    (videoInit = "done" /\ rawVideo.metadata = "loaded") => aiCanvas = sizeCanvas

\* C24: while a model load is pending the loading indicator is shown and the
\* model selector is disabled; when none is pending no spinner remains.
SelectorDisabledWhileLoading ==
    /\ loadTimers > 0 => (modelSelect.disabled /\ modelSelect.spinners > 0)
    /\ loadTimers = 0 => modelSelect.spinners = 0

\* C25: enableTracking(false) sets the id counter to 1 and the id of every
\* stored detection to null and keeps the keys and the other fields of the
\* stored detections, the history, isActive, currentModel and confidence;
\* enableTracking(true) changes nothing but the flag.
EnableTrackingKeepsDetections ==
    [][\A enabled \in BOOLEAN : enableTracking(enabled) =>
          /\ trackingEnabled' = enabled
          /\ UNCHANGED <<detectionHistory, isActive, currentModel, confidence, published,
                         rafQueue, performanceMetrics>>
          /\ IF enabled
             THEN UNCHANGED <<trackingId, detectedObjects>>
             ELSE /\ trackingId' = 1
                  /\ DOMAIN detectedObjects' = DOMAIN detectedObjects
                  /\ \A k \in DOMAIN detectedObjects :
                        detectedObjects'[k] = [detectedObjects[k] EXCEPT !.id = NULL]]_vars

\* C25 witness: tracking was switched off after detections with identifiers
\* had been stored; they are still stored, without identifiers.
DetectionsKeptIdentifiersReset ==
    /\ ~trackingEnabled /\ trackingId = 1
    /\ Cardinality(DOMAIN detectedObjects) >= 2
    /\ \A k \in DOMAIN detectedObjects : detectedObjects[k].id = NULL
    /\ \E i \in 1..Len(detectionHistory) : detectionHistory[i].id # NULL

\* C26: every detection a frame handles adds an entry to detectedObjects: the
\* size grows by the number of detections handled.
HandledDetectionAddsEntry ==
    [][FrameStep => Cardinality(DOMAIN detectedObjects')
                       = Cardinality(DOMAIN detectedObjects) + Len(lastFrame'.log)]_vars

\* C27: the alerts container holds at most 5 alerts, newest first, the
\* displayed count is their number, and a step that adds an alert puts it first
\* and keeps the most recent earlier ones in their order.
AlertsAreLatestFive ==
    [][/\ Len(alertsContainer') <= 5
       /\ alertCount' = Len(alertsContainer')
       /\ \A i, j \in 1..Len(alertsContainer') :
             i < j => alertsContainer'[i].timestamp[2] >= alertsContainer'[j].timestamp[2]
       /\ alertsContainer' # alertsContainer =>
             /\ alertsContainer'[1].timestamp = toLocaleTimeString(now)
             /\ Len(alertsContainer') =
                    IF Len(alertsContainer) < 5 THEN Len(alertsContainer) + 1 ELSE 5
             /\ \A i \in 2..Len(alertsContainer') :
                   alertsContainer'[i] = alertsContainer[i - 1]]_vars

\* C27 witness: the container is full, its first alert is newer than its last.
FiveAlertsNewestFirst ==
    /\ Len(alertsContainer) = 5
    /\ alertCount = 5
    /\ alertsContainer[1].timestamp[2] > alertsContainer[5].timestamp[2]

====
